---- MODULE Spec2Model ----
(***************************************************************************)
(* A model of problemset1/normal.py: the class NormalDistribution, an      *)
(* object whose instance dictionary holds three parameters (mean,          *)
(* standard_deviation, sample_size) and a derived attribute, sample, that  *)
(* __setattr__ redraws after every attribute assignment made while all     *)
(* three parameters are present.                                           *)
(*                                                                         *)
(* A Python value is a record [kind, v]: kind "num" carries an integer,    *)
(* kind "array" a sequence of integers (a numpy array), kind "None" is     *)
(* Python's None and kind "absent" marks a name that is not a key of the   *)
(* instance dictionary.  A mean of a sample is kept exact, as the pair     *)
(* <<sum, count>> (kind "ratio"); 0/0 is what numpy prints as nan.         *)
(***************************************************************************)
EXTENDS Integers, Sequences, FiniteSets, TLC

VARIABLES
    dict,       \* self.__dict__ : attribute name -> value
    pc,         \* "new" before __init__, "live" after it returned, "failed" if it raised
    op,         \* the operation that ran last: [name, attr, index, value]
    ret,        \* the value that operation returned
    raised,     \* the exception it raised, "none" if it returned
    draws,      \* how many times that operation called random.normal successfully
    drawnWith   \* <<loc, scale, size>> of the latest successful random.normal call

vars == <<dict, pc, op, ret, raised, draws, drawnWith>>

----------------------------------------------------------------------------
(* Bounds of the model                                                     *)

MaxSize == 2

Means == {0, 1}
Stds == {-1, 0, 1}
Sizes == -1 .. MaxSize
Indices == -1 .. MaxSize + 1
ZScores == {-1, 1}

----------------------------------------------------------------------------
(* Python values                                                           *)

Absent == [kind |-> "absent", v |-> <<>>]
NoneV == [kind |-> "None", v |-> <<>>]
Void == [kind |-> "void", v |-> <<>>]
Num(n) == [kind |-> "num", v |-> n]
Arr(s) == [kind |-> "array", v |-> s]
Ratio(a, b) == [kind |-> "ratio", v |-> <<a, b>>]
Str(s) == [kind |-> "str", v |-> s]
Bool(b) == [kind |-> "bool", v |-> b]

Params == <<"mean", "standard_deviation", "sample_size">>
Names == {"mean", "standard_deviation", "sample_size", "sample", "other"}

EmptyDict == [n \in Names |-> Absent]

hasattr(d, name) == d[name].kind # "absent"

----------------------------------------------------------------------------
(* numpy.random.normal(loc, scale, size)                                   *)

\* numpy refuses a negative scale and a negative size with ValueError
Accepts(loc, scale, size) == scale >= 0 /\ size >= 0

\* a draw: size values, each loc + scale * z for a standard normal z
normal(loc, scale, size) ==
    { [i \in 1 .. size |-> loc + scale * z[i]] : z \in [1 .. size -> ZScores] }

----------------------------------------------------------------------------
(* NormalDistribution                                                      *)

\* any() where the code has all()
should_update_any(d) == \E i \in 1 .. Len(Params) : hasattr(d, Params[i])

\* _should_update
should_update(d) == \A i \in 1 .. Len(Params) : hasattr(d, Params[i])

\* the samples random.normal can return for the parameters in d
Samples(d) ==
    IF (\A i \in 1 .. Len(Params) : hasattr(d, Params[i]))
          /\ Accepts(d["mean"].v, d["standard_deviation"].v, d["sample_size"].v)
    THEN normal(d["mean"].v, d["standard_deviation"].v, d["sample_size"].v)
    ELSE {<<>>}

\* _calculate_sample, given the sample smp that random.normal hands back;
\* reading a parameter that is absent raises AttributeError
calculate_sample(d, smp) ==
    IF \E i \in 1 .. Len(Params) : ~hasattr(d, Params[i])
    THEN [raised |-> "AttributeError", value |-> Void]
    ELSE IF ~Accepts(d["mean"].v, d["standard_deviation"].v, d["sample_size"].v)
    THEN [raised |-> "ValueError", value |-> Void]
    ELSE IF Len(smp) # d["sample_size"].v
    THEN [raised |-> "AssertionError", value |-> Void]
    ELSE [raised |-> "none", value |-> Arr(smp)]

\* the latest random.normal arguments after a draw made from d
ArgsOf(d) == <<d["mean"].v, d["standard_deviation"].v, d["sample_size"].v>>

\* __setattr__ that redraws only when the name assigned is a parameter
setattr_params_only(o, name, value, smp) ==
    LET d1 == [o.dict EXCEPT ![name] = value]
    IN  IF o.raised # "none" THEN o
        ELSE IF should_update(d1) /\ (\E i \in 1 .. Len(Params) : Params[i] = name)
        THEN LET r == calculate_sample(d1, smp)
             IN  IF r.raised # "none"
                 THEN [o EXCEPT !.dict = d1, !.raised = r.raised]
                 ELSE [o EXCEPT !.dict = [d1 EXCEPT !["sample"] = r.value],
                                !.draws = o.draws + 1,
                                !.drawnWith = ArgsOf(d1)]
        ELSE [o EXCEPT !.dict = d1]

\* __setattr__ that stores the value and never redraws
setattr_no_redraw(o, name, value, smp) ==
    IF o.raised # "none" THEN o
    ELSE [o EXCEPT !.dict = [o.dict EXCEPT ![name] = value]]

\* __setattr__(name, value) on an object [dict, raised, draws, drawnWith]
setattr(o, name, value, smp) ==
    LET d1 == [o.dict EXCEPT ![name] = value]
    IN  IF o.raised # "none" THEN o
        ELSE IF should_update(d1)
        THEN LET r == calculate_sample(d1, smp)
             IN  IF r.raised # "none"
                 THEN [o EXCEPT !.dict = d1, !.raised = r.raised]
                 ELSE [o EXCEPT !.dict = [d1 EXCEPT !["sample"] = r.value],
                                !.draws = o.draws + 1,
                                !.drawnWith = ArgsOf(d1)]
        ELSE [o EXCEPT !.dict = d1]

Obj(d, w) == [dict |-> d, raised |-> "none", draws |-> 0, drawnWith |-> w]

\* __init__ whose last line writes None into __dict__ without a redraw
init_sample_none(m, s, n, smp1, smp2) ==
    LET o1 == setattr(Obj(EmptyDict, <<>>), "mean", Num(m), <<>>)
        o2 == setattr(o1, "standard_deviation", Num(s), <<>>)
        o3 == setattr(o2, "sample_size", Num(n), smp1)
    IN  IF o3.raised # "none" THEN o3
        ELSE [o3 EXCEPT !.dict = [o3.dict EXCEPT !["sample"] = NoneV]]

\* __init__(mean, standard_deviation, sample_size): four assignments
init(m, s, n, smp1, smp2) ==
    LET o1 == setattr(Obj(EmptyDict, <<>>), "mean", Num(m), <<>>)
        o2 == setattr(o1, "standard_deviation", Num(s), <<>>)
        o3 == setattr(o2, "sample_size", Num(n), smp1)
    IN  setattr(o3, "sample", NoneV, smp2)

\* Scientific.Statistics.mean: add.reduce(data) / len(data), kept as sum/count
RECURSIVE add_reduce(_)
add_reduce(data) ==
    IF data = <<>> THEN 0 ELSE Head(data) + add_reduce(Tail(data))

mean(data) == Ratio(add_reduce(data), Len(data))

\* numpy.multiply: the elementwise product
multiply(a, b) == [i \in 1 .. Len(a) |-> a[i] * b[i]]

Returns(value) == [raised |-> "none", value |-> value]
Raises(exc) == [raised |-> exc, value |-> Void]

\* the plain attribute read self.<name>
getattr(d, name) ==
    IF hasattr(d, name) THEN Returns(d[name]) ELSE Raises("AttributeError")

sample_average(d) ==
    IF ~hasattr(d, "sample") THEN Raises("AttributeError")
    ELSE IF d["sample"].kind = "None" THEN Returns(NoneV)
    ELSE Returns(mean(d["sample"].v))

\* the average of the sample returned where the average of the squares is due
square_sample_average_unsquared(d) ==
    IF ~hasattr(d, "sample") THEN Raises("AttributeError")
    ELSE IF d["sample"].kind = "None" THEN Returns(NoneV)
    ELSE Returns(mean(d["sample"].v))

square_sample_average(d) ==
    IF ~hasattr(d, "sample") THEN Raises("AttributeError")
    ELSE IF d["sample"].kind = "None" THEN Returns(NoneV)
    ELSE Returns(mean(multiply(d["sample"].v, d["sample"].v)))

\* what the %s conversion writes for a value
fmt(value) ==
    IF value.kind = "None" THEN "None"
    ELSE IF value.kind = "ratio"
    THEN ToString(value.v[1]) \o "/" \o ToString(value.v[2])
    ELSE ToString(value.v)

\* output with the two statistics in the wrong order
output_swapped(d) ==
    LET sq == square_sample_average(d)
        avg == sample_average(d)
    IN  IF sq.raised # "none" THEN Raises(sq.raised)
        ELSE IF avg.raised # "none" THEN Raises(avg.raised)
        ELSE Returns(Str("output <x^2>= " \o fmt(avg.value) \o " \n output <x>= "
                         \o fmt(sq.value)))

output(d) ==
    LET sq == square_sample_average(d)
        avg == sample_average(d)
    IN  IF sq.raised # "none" THEN Raises(sq.raised)
        ELSE IF avg.raised # "none" THEN Raises(avg.raised)
        ELSE Returns(Str("output <x^2>= " \o fmt(sq.value) \o " \n output <x>= "
                         \o fmt(avg.value)))

\* len(dist): __len__ returns sample_size, and len() refuses a negative one
len(d) ==
    IF ~hasattr(d, "sample_size") THEN Raises("AttributeError")
    ELSE IF d["sample_size"].v < 0 THEN Raises("ValueError")
    ELSE Returns(d["sample_size"])

\* dist[index]: self.sample[index], with numpy's indexing of a 1-d array
getitem(d, index) ==
    IF ~hasattr(d, "sample") THEN Raises("AttributeError")
    ELSE IF d["sample"].kind = "None" THEN Raises("TypeError")
    ELSE LET a == d["sample"].v
             i == IF index < 0 THEN index + Len(a) ELSE index
         IN  IF i < 0 \/ i >= Len(a) THEN Raises("IndexError")
             ELSE Returns(Num(a[i + 1]))

repr(d) ==
    IF ~should_update(d) THEN Raises("AttributeError")
    ELSE Returns(Str("<NormalDistribution(mean=" \o fmt(d["mean"])
                     \o ", standard_deviation=" \o fmt(d["standard_deviation"])
                     \o ", sample_size=" \o fmt(d["sample_size"]) \o ")>"))

\* del dist.<name>: object.__delattr__ on the instance dictionary
delattr(d, name) ==
    IF hasattr(d, name)
    THEN [raised |-> "none", dict |-> [d EXCEPT ![name] = Absent]]
    ELSE [raised |-> "AttributeError", dict |-> d]

\* the values the model assigns to each attribute name
ValuesFor(name) ==
    CASE name = "mean" -> {Num(m) : m \in Means}
      [] name = "standard_deviation" -> {Num(s) : s \in Stds}
      [] name = "sample_size" -> {Num(n) : n \in Sizes}
      [] name = "sample" -> {NoneV}
      [] OTHER -> {Num(0)}

\* an operation: its name, the attribute or index it names, the value it passes
Op(name, attr, index, value) ==
    [name |-> name, attr |-> attr, index |-> index, value |-> value]

Init ==
    /\ dict = EmptyDict
    /\ pc = "new"
    /\ op = Op("none", "", 0, Void)
    /\ ret = Void
    /\ raised = "none"
    /\ draws = 0
    /\ drawnWith = <<>>

Construct ==
    /\ pc = "new"
    /\ \E m \in Means, s \in Stds, n \in Sizes :
         LET d3 == [EmptyDict EXCEPT !["mean"] = Num(m),
                                     !["standard_deviation"] = Num(s),
                                     !["sample_size"] = Num(n)]
         IN  \E smp1 \in Samples(d3), smp2 \in Samples(d3) :
               LET o == init(m, s, n, smp1, smp2)
               IN  /\ dict' = o.dict
                   /\ raised' = o.raised
                   /\ draws' = o.draws
                   /\ drawnWith' = o.drawnWith
                   /\ pc' = IF o.raised = "none" THEN "live" ELSE "failed"
                   /\ op' = Op("init", "", 0, Arr(<<m, s, n>>))
    /\ ret' = Void

\* dist.<name> = value
SetAttr ==
    /\ pc = "live"
    /\ \E name \in Names : \E value \in ValuesFor(name) :
         \E smp \in Samples([dict EXCEPT ![name] = value]) :
           LET o == setattr(Obj(dict, drawnWith), name, value, smp)
           IN  /\ dict' = o.dict
               /\ raised' = o.raised
               /\ draws' = o.draws
               /\ drawnWith' = o.drawnWith
               /\ op' = Op("setattr", name, 0, value)
    /\ ret' = Void
    /\ UNCHANGED pc

\* del dist.<name>
DelAttr ==
    /\ pc = "live"
    /\ \E name \in Names :
         LET r == delattr(dict, name)
         IN  /\ dict' = r.dict
             /\ raised' = r.raised
             /\ op' = Op("delattr", name, 0, Void)
    /\ ret' = Void
    /\ draws' = 0
    /\ UNCHANGED <<pc, drawnWith>>

\* a read that draws a new sample when the parameters allow it
Read_redraw(o, r) ==
    /\ pc = "live"
    /\ op' = o
    /\ ret' = r.value
    /\ raised' = r.raised
    /\ \E smp \in Samples(dict) :
         LET o1 == setattr(Obj(dict, drawnWith), "sample", NoneV, smp)
         IN  /\ dict' = IF o1.raised = "none" /\ o1.draws = 1 THEN o1.dict ELSE dict
             /\ draws' = IF o1.raised = "none" THEN o1.draws ELSE 0
             /\ drawnWith' = o1.drawnWith
    /\ UNCHANGED pc

\* an operation that only reads: r is its outcome
Read(o, r) ==
    /\ pc = "live"
    /\ op' = o
    /\ ret' = r.value
    /\ raised' = r.raised
    /\ draws' = 0
    /\ UNCHANGED <<dict, pc, drawnWith>>

GetAttr == \E name \in Names : Read(Op("getattr", name, 0, Void), getattr(dict, name))

SampleAverage == Read(Op("sample_average", "", 0, Void), sample_average(dict))

SquareSampleAverage ==
    Read(Op("square_sample_average", "", 0, Void), square_sample_average(dict))

Output == Read(Op("output", "", 0, Void), output(dict))

LenOp == Read(Op("len", "", 0, Void), len(dict))

GetItem == \E i \in Indices : Read(Op("getitem", "", i, Void), getitem(dict, i))

Repr == Read(Op("repr", "", 0, Void), repr(dict))

ShouldUpdate ==
    Read(Op("_should_update", "", 0, Void), Returns(Bool(should_update(dict))))

Next ==
    \/ Construct
    \/ SetAttr
    \/ DelAttr
    \/ GetAttr
    \/ SampleAverage
    \/ SquareSampleAverage
    \/ Output
    \/ LenOp
    \/ GetItem
    \/ Repr
    \/ ShouldUpdate

Spec == Init /\ [][Next]_vars

----------------------------------------------------------------------------
(* Properties                                                              *)

ParamSet == {"mean", "standard_deviation", "sample_size"}

\* every parameter is a key of d
AllPresent(d) == \A p \in ParamSet : d[p].kind # "absent"

\* the stored sample is the latest draw, made with the parameters now in d
Fresh(d, w) ==
    /\ d["sample"].kind = "array"
    /\ Len(d["sample"].v) = d["sample_size"].v
    /\ w = ArgsOf(d)
    /\ d["sample"].v \in normal(d["mean"].v, d["standard_deviation"].v,
                                d["sample_size"].v)

\* C1 (as claimed): in every state of a constructed object, after any
\* assignments and deletions, if mean, standard_deviation and sample_size are
\* all present then the stored sample has sample_size elements and was drawn
\* with the current three parameters.
C1_NeverStale == (pc = "live" /\ AllPresent(dict)) => Fresh(dict, drawnWith)

\* C1, what does hold: if the three parameters are present with values
\* random.normal accepts and the sample attribute has not been deleted, the
\* sample is fresh.
C1_FreshWhenAccepted ==
    (/\ pc = "live"
     /\ AllPresent(dict)
     /\ Accepts(dict["mean"].v, dict["standard_deviation"].v, dict["sample_size"].v)
     /\ hasattr(dict, "sample"))
    => Fresh(dict, drawnWith)

\* C2: when the constructor returns, the three parameters are the arguments
\* passed and the sample is a draw (not None) made from them; it returns for
\* every triple random.normal accepts.
C2_ConstructorDraws ==
    op.name = "init" =>
        /\ pc = "live" =>
             /\ dict["mean"] = Num(op.value.v[1])
             /\ dict["standard_deviation"] = Num(op.value.v[2])
             /\ dict["sample_size"] = Num(op.value.v[3])
             /\ Fresh(dict, op.value.v)
        /\ Accepts(op.value.v[1], op.value.v[2], op.value.v[3]) => pc = "live"

C2_Witness ==
    /\ op.name = "init"
    /\ pc = "live"
    /\ op.value.v = <<1, 1, 2>>
    /\ dict["sample"] = Arr(<<0, 2>>)

ReadOps ==
    {"getattr", "sample_average", "square_sample_average", "output", "len",
     "getitem", "repr", "_should_update"}

\* C4: a read (of sample or another attribute, sample_average,
\* square_sample_average, output, len(dist), dist[i], repr(dist)) performs no
\* draw and leaves the parameters and the stored sample as they were, whether it
\* returns or raises; two consecutive reads of sample give the same outcome.
C4_ReadsDoNotRedraw ==
    [][/\ op'.name \in ReadOps =>
            /\ dict' = dict
            /\ drawnWith' = drawnWith
            /\ draws' = 0
            /\ pc' = pc
       /\ (/\ op.name = "getattr"
           /\ op.attr = "sample"
           /\ op' = op) => (ret' = ret /\ raised' = raised)]_vars

C4_Witness ==
    /\ op = Op("getattr", "sample", 0, Void)
    /\ raised = "none"
    /\ ret = Arr(<<-1, 1>>)
    /\ dict["sample"] = Arr(<<-1, 1>>)
    /\ AllPresent(dict)

\* C5 (as claimed): whenever the sample is None or absent, sample_average and
\* square_sample_average return None and do not raise.
C5_UndefinedWhenNoSample ==
    (/\ pc = "live"
     /\ op.name \in {"sample_average", "square_sample_average"}
     /\ dict["sample"].kind \in {"None", "absent"})
    => (raised = "none" /\ ret = NoneV)

\* C6 (as claimed): for an index i >= 0, dist[i] returns element i of the stored
\* sample when i < len(dist), and raises IndexError when i >= len(dist) or when
\* there is no sample.
C6_ElementAtOrIndexError ==
    (pc = "live" /\ op.name = "getitem" /\ op.index >= 0)
    => IF /\ dict["sample"].kind = "array"
          /\ len(dict).raised = "none"
          /\ op.index < len(dict).value.v
       THEN /\ raised = "none"
            /\ ret = Num(dict["sample"].v[op.index + 1])
       ELSE raised = "IndexError"

\* the sum of f[1] .. f[n]
RECURSIVE SumTo(_, _)
SumTo(f, n) == IF n = 0 THEN 0 ELSE f[n] + SumTo(f, n - 1)

\* the arithmetic mean of s, and of the squares of s, as sum/count
MeanOf(s) == Ratio(SumTo(s, Len(s)), Len(s))
MeanSquareOf(s) == Ratio(SumTo([i \in 1 .. Len(s) |-> s[i] * s[i]], Len(s)), Len(s))

C8_AveragesOfStoredSample ==
    (pc = "live" /\ dict["sample"].kind = "array")
    => (/\ op.name = "sample_average" =>
             (raised = "none" /\ ret = MeanOf(dict["sample"].v))
        /\ op.name = "square_sample_average" =>
             (raised = "none" /\ ret = MeanSquareOf(dict["sample"].v)))

C8_Witness ==
    /\ op.name = "square_sample_average"
    /\ dict["sample"] = Arr(<<0, 2>>)
    /\ drawnWith = <<1, 1, 2>>
    /\ dict["mean"] = Num(0)
    /\ ret = Ratio(4, 2)

\* d with only the assigned name changed, to the assigned value
Stored(d, o) == [n \in Names |-> IF n = o.attr THEN o.value ELSE d[n]]

====
